---- MODULE Spec2Model ----
(***************************************************************************)
(* ContestHub server (src/index.js): the contest lifecycle, the payment    *)
(* settlement workflow, submission handling and winner resolution, as a    *)
(* state machine over the four MongoDB collections and the payment         *)
(* gateway.  Every request handler is a sequence of awaited store or       *)
(* gateway calls; each awaited call is one atomic step, so handlers that   *)
(* await more than once interleave with the other requests in flight.     *)
(***************************************************************************)
EXTENDS Integers, Sequences, FiniteSets, TLC

(* ------------------------------ bounds --------------------------------- *)
\* The number of requests the server takes in a run.
MaxRequests == 4
\* The number of requests of an end-to-end run, served one after the other.
MaxRun == 8

Procs == {"r1", "r2"}
Emails == {"A", "B"}
Actors == {"admin", "A"}
Prices == {10}
EditCounts == {1}
Creators == {"B"}

(* ------------------------------ values --------------------------------- *)
Statuses == {"pending", "confirmed", "rejected", "ended"}
NoEmail == "none"

\* An id as it travels in a URL, a JSON body or gateway metadata: a string.
Str(n) == [t |-> "str", v |-> n]
\* new ObjectId(id): the same hex digits, but a value of another BSON type,
\* which a MongoDB filter never matches against a string.
ObjectId(s) == [t |-> "oid", v |-> s.v]
NoId == [t |-> "none", v |-> 0]

VARIABLES
    users,        \* userCollection: email -> role
    contests,     \* contestCollection: _id (ObjectId digits) -> document
    nextOid,      \* digits of the next ObjectId the driver generates for a contest
    sessions,     \* the gateway's checkout sessions: id -> session
    payments,     \* paymentCollection: set of documents
    submissions,  \* submissionCollection: set of documents
    serial,       \* TRUE when the server takes a request only after answering the last
    budget,       \* the number of requests the server takes in this run
    served,       \* the number of requests taken so far
    pc,           \* per request slot: the await the handler is suspended at
    req,          \* per request slot: the request and the handler's locals
    last          \* the request answered most recently

vars == <<users, contests, nextOid, sessions, payments, submissions, serial, budget, served, pc, req, last>>

(* ------------------------- request bookkeeping ------------------------- *)
NoArg == [id |-> NoId]
NoReq == [op |-> "none", arg |-> NoArg, loc |-> NoArg, preS |-> "", preN |-> 0, chg |-> FALSE]

\* What is remembered of an answered request: the route and its arguments,
\* the answer, the contest's status (preS) or the count (preN) the handler
\* met when it took the request, whether it changed the store, and (prev)
\* the answer to the request before it when that was the same request.
Entry(op, arg, resp, preS, preN, chg) ==
    [op |-> op, arg |-> arg, resp |-> resp, preS |-> preS, preN |-> preN, chg |-> chg,
     prev |-> ""]

\* A request of a route whose answers are not compared across requests.
Other(resp) == Entry("other", NoArg, "", "", 0, FALSE)

Log(e) ==
    last' = [e EXCEPT !.prev = IF last.op = e.op /\ last.arg = e.arg THEN last.resp ELSE ""]

Idle(p) == pc[p] = "idle"
AllIdle == \A p \in Procs : pc[p] = "idle"

\* Slot p is free and takes the next request.
Take(p) ==
    /\ Idle(p)
    /\ (serial => AllIdle)
    /\ served < budget
    /\ served' = served + 1

\* The handler of slot p answers with entry e and the slot is free again.
Respond(p, e) ==
    /\ pc' = [pc EXCEPT ![p] = "idle"]
    /\ req' = [req EXCEPT ![p] = NoReq]
    /\ Log(e)

\* Contest ids a client can name: the ids generated so far. The id of a
\* deleted contest stands for every well-formed id that no document has.
ContestIdInputs == {Str(n) : n \in 1..(nextOid - 1)}
\* Submissions are never deleted: 0 is a well-formed id that no document has.
SubmissionIdInputs == {Str(n) : n \in 0..Cardinality(submissions)}

(* ------------------------------ store ---------------------------------- *)
\* contestCollection filter { _id: <oid> }
ContestMatches(oid) == oid.t = "oid" /\ oid.v \in DOMAIN contests

StatusOf(oid) == IF ContestMatches(oid) THEN contests[oid.v].status ELSE "none"
CountOf(oid) == IF ContestMatches(oid) THEN contests[oid.v].participants ELSE -1

IsWinner(s) == "isWinner" \in DOMAIN s /\ s.isWinner

\* The document POST /contests stores, whatever the body carries.
NewContest ==
    [creatorEmail |-> "B", status |-> "pending", participants |-> 0,
     winnerEmail |-> NoEmail, winnerSubmissionId |-> NoId]

\* The database outlives the server process: a run starts on the empty
\* database, or on one in which a creator has already posted a contest.
Start ==
    /\ users = [e \in {"admin"} \cup Emails |-> IF e = "admin" THEN "admin" ELSE "user"]
    /\ \/ contests = <<>> /\ nextOid = 1
       \/ contests = <<NewContest>> /\ nextOid = 2
    /\ sessions = <<>>
    /\ payments = {}
    /\ submissions = {}
    /\ served = 0
    /\ pc = [p \in Procs |-> "idle"]
    /\ req = [p \in Procs |-> NoReq]
    /\ last = Other("")

\* Requests are served concurrently: any suspended handler may resume while
\* other requests are taken.
Init == Start /\ serial = FALSE /\ budget = MaxRequests

\* Requests arrive one after the other: a handler runs to its answer before
\* the next request is taken.
InitSeq == Start /\ serial = TRUE /\ budget = MaxRequests

\* An end-to-end run: more requests, one after the other.
InitRun == Start /\ serial = TRUE /\ budget = MaxRun

(* ------------------------------ users ---------------------------------- *)
verifyAdmin(email) == email \in DOMAIN users /\ users[email] = "admin"

(* ----------------------------- contests -------------------------------- *)
CreateBodies ==
    [creatorEmail : Creators, status : Statuses, participants : EditCounts,
     winnerEmail : {NoEmail}, winnerSubmissionId : {NoId}]

\* contest.status = "pending"; contest.participants = 0;
Stored_AsSent(body) == body
Stored(body) == [body EXCEPT !.status = "pending", !.participants = 0]

\* POST /contests
CreateContest(p) ==
    /\ Take(p)
    /\ \E body \in CreateBodies :
        LET contest == Stored(body)
            arg == [id |-> Str(nextOid), status |-> body.status,
                    participants |-> body.participants] IN
        /\ contests' = [n \in DOMAIN contests \cup {nextOid} |->
                           IF n = nextOid THEN contest ELSE contests[n]]
        /\ nextOid' = nextOid + 1
        /\ Respond(p, Entry("create", arg, "inserted", "", 0, TRUE))
    /\ UNCHANGED <<serial, budget, users, sessions, payments, submissions>>

TransitionTargets == Statuses \cup {""}

\* The filter of PATCH /contests/:id
TransitionFilter_AnyStatus(oid) == ContestMatches(oid)
TransitionFilter(oid) == ContestMatches(oid) /\ contests[oid.v].status = "pending"

\* PATCH /contests/:id; the route has no middleware: the handler never
\* looks at who (actor) sent the request.
Transition(p) ==
    /\ Take(p)
    /\ \E actor \in Actors, id \in ContestIdInputs, status \in TransitionTargets :
        LET oid == ObjectId(id)
            arg == [id |-> id, status |-> status, actor |-> actor]
            pre == StatusOf(oid) IN
        IF status = ""
        THEN /\ Respond(p, Entry("transition", arg, "Status is required", pre, 0, FALSE))
             /\ UNCHANGED contests
        ELSE IF TransitionFilter(oid)
        THEN /\ contests' = [contests EXCEPT ![oid.v].status = status]
             /\ Respond(p, Entry("transition", arg, "success", pre, 0, contests' # contests))
        ELSE /\ Respond(p, Entry("transition", arg, "Contest not found or already updated",
                                 pre, 0, FALSE))
             /\ UNCHANGED contests
    /\ UNCHANGED <<serial, budget, users, nextOid, sessions, payments, submissions>>

\* PATCH /contests/confirm/:id and PATCH /contests/reject/:id
SetStatusByAdmin(p, status) ==
    /\ Take(p)
    /\ \E actor \in Actors, id \in ContestIdInputs :
        LET oid == ObjectId(id) IN
        IF ~verifyAdmin(actor)
        THEN /\ Respond(p, Other("Forbidden access"))
             /\ UNCHANGED contests
        ELSE /\ contests' = IF ContestMatches(oid)
                            THEN [contests EXCEPT ![oid.v].status = status]
                            ELSE contests
             /\ Respond(p, Other("result"))
    /\ UNCHANGED <<serial, budget, users, nextOid, sessions, payments, submissions>>

Confirm(p) == SetStatusByAdmin(p, "confirmed")
Reject(p) == SetStatusByAdmin(p, "rejected")

EditBodies ==
    {[status |-> s] : s \in Statuses} \cup {[participants |-> n] : n \in EditCounts}

\* { $set: updateData } applied to a contest document
SetFields(doc, body) ==
    [f \in DOMAIN doc |-> IF f \in DOMAIN body THEN body[f] ELSE doc[f]]

\* PATCH /contests/edit/:id
EditContest(p) ==
    /\ Take(p)
    /\ \E id \in ContestIdInputs, body \in EditBodies :
        LET oid == ObjectId(id) IN
        IF ContestMatches(oid)
        THEN /\ contests' = [contests EXCEPT ![oid.v] = SetFields(@, body)]
             /\ Respond(p, Other("success"))
        ELSE /\ Respond(p, Other("Contest not found"))
             /\ UNCHANGED contests
    /\ UNCHANGED <<serial, budget, users, nextOid, sessions, payments, submissions>>

\* deleteOne({ _id }) on contestCollection
DeleteOne(oid) == [n \in DOMAIN contests \ {oid.v} |-> contests[n]]

\* DELETE /contests/admin/:id
DeleteContestAdmin(p) ==
    /\ Take(p)
    /\ \E actor \in Actors, id \in ContestIdInputs :
        LET oid == ObjectId(id) IN
        IF ~verifyAdmin(actor)
        THEN /\ Respond(p, Other("Forbidden access"))
             /\ UNCHANGED contests
        ELSE IF ContestMatches(oid)
        THEN /\ contests' = DeleteOne(oid)
             /\ Respond(p, Other("Contest deleted successfully by admin"))
        ELSE /\ Respond(p, Other("Contest not found"))
             /\ UNCHANGED contests
    /\ UNCHANGED <<serial, budget, users, nextOid, sessions, payments, submissions>>

\* DELETE /contests/:id
DeleteContest(p) ==
    /\ Take(p)
    /\ \E id \in ContestIdInputs :
        LET oid == ObjectId(id)
            arg == [id |-> id]
            pre == StatusOf(oid) IN
        IF ContestMatches(oid)
        THEN /\ contests' = DeleteOne(oid)
             /\ Respond(p, Entry("delete", arg, "Contest deleted successfully", pre, 0, TRUE))
        ELSE /\ Respond(p, Entry("delete", arg, "Contest not found", pre, 0, FALSE))
             /\ UNCHANGED contests
    /\ UNCHANGED <<serial, budget, users, nextOid, sessions, payments, submissions>>

(* ------------------------- payment gateway ----------------------------- *)
SessionIdInputs == 0..Cardinality(DOMAIN sessions)

\* unit_amount: price * 100, quantity: 1; the gateway totals the line items.
UnitAmount_Raw(price) == price
UnitAmount(price) == price * 100
AmountTotal(price) == UnitAmount(price) * 1

\* POST /create-checkout-session
CreateCheckoutSession(p) ==
    /\ Take(p)
    /\ \/ \E contestId \in ContestIdInputs, userEmail \in Emails, price \in Prices :
            LET sid == Cardinality(DOMAIN sessions) + 1
                session == [contestId |-> contestId, userEmail |-> userEmail,
                            amount_total |-> AmountTotal(price),
                            payment_status |-> "unpaid"] IN
            /\ sessions' = [n \in DOMAIN sessions \cup {sid} |->
                               IF n = sid THEN session ELSE sessions[n]]
            /\ Respond(p, Other("url"))
       \/ /\ Respond(p, Other("Payment session failed"))
          /\ UNCHANGED sessions
    /\ UNCHANGED <<serial, budget, users, contests, nextOid, payments, submissions>>

\* The customer completes the checkout on the gateway's page.
GatewayPay ==
    /\ \E sid \in DOMAIN sessions :
        /\ sessions[sid].payment_status = "unpaid"
        /\ sessions' = [sessions EXCEPT ![sid].payment_status = "paid"]
    /\ UNCHANGED <<serial, budget, users, contests, nextOid, payments, submissions, served, pc, req, last>>

(* ------------------------ payment settlement --------------------------- *)
IsPaid_Always(session) == TRUE
IsPaid_Open(session) == session.payment_status \in {"paid", "unpaid"}
IsPaid(session) == session.payment_status = "paid"

\* paymentCollection.findOne({ contestId, userEmail })
PaymentExists_Never(contestId, userEmail) == FALSE
PaymentExists(contestId, userEmail) ==
    \E d \in payments : d.contestId = contestId /\ d.userEmail = userEmail

\* POST /verify-payment, up to the first await: stripe.checkout.sessions.retrieve
VerifyRetrieve(p) ==
    /\ Take(p)
    /\ \E sid \in SessionIdInputs :
        LET arg == [session |-> sid] IN
        IF sid \notin DOMAIN sessions
        THEN Respond(p, Entry("verify", arg, "Verification failed", "", -1, FALSE))
        ELSE LET session == sessions[sid]
                 pre == CountOf(ObjectId(session.contestId)) IN
             IF ~IsPaid(session)
             THEN Respond(p, Entry("verify", arg, "Payment not completed", "", pre, FALSE))
             ELSE /\ pc' = [pc EXCEPT ![p] = "vp_find"]
                  /\ req' = [req EXCEPT ![p] =
                               [op |-> "verify", arg |-> arg,
                                loc |-> [id |-> sid, contestId |-> session.contestId,
                                         userEmail |-> session.userEmail,
                                         amount_total |-> session.amount_total],
                                preS |-> "", preN |-> pre, chg |-> FALSE]]
                  /\ UNCHANGED last
    /\ UNCHANGED <<serial, budget, users, contests, nextOid, sessions, payments, submissions>>

Done(p, resp) ==
    Respond(p, Entry(req[p].op, req[p].arg, resp, req[p].preS, req[p].preN, req[p].chg))

\* const exists = await paymentCollection.findOne(...)
VerifyFind(p) ==
    /\ pc[p] = "vp_find"
    /\ IF PaymentExists(req[p].loc.contestId, req[p].loc.userEmail)
       THEN Done(p, "Already registered")
       ELSE /\ pc' = [pc EXCEPT ![p] = "vp_insert"]
            /\ UNCHANGED <<req, last>>
    /\ UNCHANGED <<serial, budget, served, users, contests, nextOid, sessions, payments, submissions>>

\* await paymentCollection.insertOne(...)
VerifyInsert(p) ==
    /\ pc[p] = "vp_insert"
    /\ LET session == req[p].loc IN
       payments' = payments \cup
           {[_id |-> Cardinality(payments) + 1,
             contestId |-> session.contestId,
             userEmail |-> session.userEmail,
             amount |-> session.amount_total \div 100,
             stripeSessionId |-> session.id]}
    /\ pc' = [pc EXCEPT ![p] = "vp_inc"]
    /\ req' = [req EXCEPT ![p].chg = TRUE]
    /\ UNCHANGED <<serial, budget, served, users, contests, nextOid, sessions, submissions, last>>

\* { $inc: { participants: 1 } } applied to a contest document
Inc_None(doc) == doc
Inc_Twice(doc) == [doc EXCEPT !.participants = @ + 2]
Inc(doc) == [doc EXCEPT !.participants = @ + 1]

\* await contestCollection.updateOne({ _id }, { $inc: { participants: 1 } })
VerifyInc(p) ==
    /\ pc[p] = "vp_inc"
    /\ LET oid == ObjectId(req[p].loc.contestId) IN
       contests' = IF ContestMatches(oid)
                   THEN [contests EXCEPT ![oid.v] = Inc(@)]
                   ELSE contests
    /\ Done(p, "success")
    /\ UNCHANGED <<serial, budget, served, users, nextOid, sessions, payments, submissions>>

\* An awaited store call rejects: the catch block answers 500.
VerifyThrow(p) ==
    /\ pc[p] \in {"vp_find", "vp_insert", "vp_inc"}
    /\ Done(p, "Verification failed")
    /\ UNCHANGED <<serial, budget, served, users, contests, nextOid, sessions, payments, submissions>>

(* ------------------------ participated contests ----------------------- *)
\* paymentCollection.find({ userEmail: email }).toArray()
PaymentsOfUser(email) == {d \in payments : d.userEmail = email}

\* [...new Set(payments.map((p) => p.contestId))]
UniqueIds(found) == {d.contestId : d \in found}

\* uniqueIds.map((id) => new ObjectId(id))
ContestIds_Raw(uniqueIds) == uniqueIds
ContestIds(uniqueIds) == {ObjectId(id) : id \in uniqueIds}

\* contestCollection.find({ _id: { $in: contestIds } }).toArray(): the
\* documents of the collection that match, in the collection's order.
RECURSIVE Scan(_, _)
Scan(n, contestIds) ==
    IF n = 0 THEN <<>>
    ELSE IF n \in DOMAIN contests /\ [t |-> "oid", v |-> n] \in contestIds
         THEN Append(Scan(n - 1, contestIds), n)
         ELSE Scan(n - 1, contestIds)

ContestsIn(contestIds) == Scan(nextOid - 1, contestIds)

\* GET /participated-contests/:email, up to the answer of the first find
ParticipatedFind(p) ==
    /\ Take(p)
    /\ \E email \in Emails :
        LET found == PaymentsOfUser(email) IN
        IF found = {}
        THEN Respond(p, Entry("participated", [userEmail |-> email, sent |-> <<>>],
                              "list", "", 0, FALSE))
        ELSE /\ pc' = [pc EXCEPT ![p] = "pc_fetch"]
             /\ req' = [req EXCEPT ![p] =
                          [op |-> "participated", arg |-> [userEmail |-> email],
                           loc |-> [id |-> NoId, uniqueIds |-> UniqueIds(found)],
                           preS |-> "", preN |-> 0, chg |-> FALSE]]
             /\ UNCHANGED last
    /\ UNCHANGED <<serial, budget, users, contests, nextOid, sessions, payments, submissions>>

\* const contests = await contestCollection.find(...).toArray(); res.send(contests)
ParticipatedFetch(p) ==
    /\ pc[p] = "pc_fetch"
    /\ Respond(p, Entry("participated",
                        [userEmail |-> req[p].arg.userEmail,
                         sent |-> ContestsIn(ContestIds(req[p].loc.uniqueIds))],
                        "list", "", 0, FALSE))
    /\ UNCHANGED <<serial, budget, served, users, contests, nextOid, sessions, payments, submissions>>

(* ---------------------------- submissions ------------------------------ *)
SubmissionsOf(n, userEmail) ==
    {d \in submissions : d.contestId.v = n /\ d.userEmail = userEmail}

\* POST /submissions
AddSubmission(p) ==
    /\ Take(p)
    /\ \/ /\ \E userEmail \in Emails, contestId \in ContestIdInputs :
               submissions' = submissions \cup
                   {[_id |-> [t |-> "oid", v |-> Cardinality(submissions) + 1],
                     userEmail |-> userEmail,
                     contestId |-> contestId]}
          /\ Respond(p, Other("Task submitted"))
       \/ /\ Respond(p, Other("Unauthorized access"))
          /\ UNCHANGED submissions
    /\ UNCHANGED <<serial, budget, users, contests, nextOid, sessions, payments>>

\* submissionCollection.findOne({ contestId: new ObjectId(contestId), userEmail })
SubmissionExists_Never(oid, userEmail) == FALSE
SubmissionExists(oid, userEmail) ==
    \E d \in submissions : d.contestId = oid /\ d.userEmail = userEmail

\* POST /submissions/:contestId, up to the answer of findOne
SubmitFind(p) ==
    /\ Take(p)
    /\ \E contestId \in ContestIdInputs, userEmail \in Emails :
        LET oid == ObjectId(contestId)
            arg == [id |-> contestId, userEmail |-> userEmail]
            pre == Cardinality(SubmissionsOf(contestId.v, userEmail)) IN
        IF SubmissionExists(oid, userEmail)
        THEN Respond(p, Entry("submit", arg, "Already submitted", "", pre, FALSE))
        ELSE /\ pc' = [pc EXCEPT ![p] = "sub_insert"]
             /\ req' = [req EXCEPT ![p] =
                          [op |-> "submit", arg |-> arg, loc |-> NoArg,
                           preS |-> "", preN |-> pre, chg |-> FALSE]]
             /\ UNCHANGED last
    /\ UNCHANGED <<serial, budget, users, contests, nextOid, sessions, payments, submissions>>

\* const result = await submissionCollection.insertOne(...)
SubmitInsert(p) ==
    /\ pc[p] = "sub_insert"
    /\ submissions' = submissions \cup
           {[_id |-> [t |-> "oid", v |-> Cardinality(submissions) + 1],
             userEmail |-> req[p].arg.userEmail,
             contestId |-> ObjectId(req[p].arg.id),
             isWinner |-> FALSE]}
    /\ Respond(p, Entry("submit", req[p].arg, "inserted", "", req[p].preN, TRUE))
    /\ UNCHANGED <<serial, budget, served, users, contests, nextOid, sessions, payments>>

(* -------------------------- winner resolution -------------------------- *)
\* submissionCollection.findOne({ _id: new ObjectId(submissionId) })
SubmissionFound_Any(submissionId) ==
    {[_id |-> ObjectId(submissionId), userEmail |-> NoEmail]}
SubmissionFound(submissionId) ==
    {d \in submissions : d._id = ObjectId(submissionId)}

\* POST /contests/:contestId/declare-winner, up to the answer of findOne;
\* the route has no middleware: the handler never looks at who (actor) sent
\* the request.
DeclareFind(p) ==
    /\ Take(p)
    /\ \E actor \in Actors, contestId \in ContestIdInputs, submissionId \in SubmissionIdInputs :
        LET arg == [id |-> contestId, submissionId |-> submissionId, actor |-> actor]
            found == SubmissionFound(submissionId) IN
        IF found = {}
        THEN Respond(p, Entry("declare", arg, "Submission not found",
                              StatusOf(ObjectId(contestId)), 0, FALSE))
        ELSE /\ pc' = [pc EXCEPT ![p] = "dw_mark"]
             /\ req' = [req EXCEPT ![p] =
                          [op |-> "declare", arg |-> arg,
                           loc |-> [id |-> submissionId,
                                    userEmail |-> (CHOOSE d \in found : TRUE).userEmail],
                           preS |-> StatusOf(ObjectId(contestId)), preN |-> 0,
                           chg |-> FALSE]]
             /\ UNCHANGED last
    /\ UNCHANGED <<serial, budget, users, contests, nextOid, sessions, payments, submissions>>

\* { $set: { isWinner: true } } applied to a submission document
MarkWinner_Skip(d) == d
MarkWinner(d) ==
    [f \in DOMAIN d \cup {"isWinner"} |-> IF f = "isWinner" THEN TRUE ELSE d[f]]

\* await submissionCollection.updateOne({ _id }, { $set: { isWinner: true } })
DeclareMark(p) ==
    /\ pc[p] = "dw_mark"
    /\ submissions' = {IF d._id = ObjectId(req[p].arg.submissionId) THEN MarkWinner(d) ELSE d :
                          d \in submissions}
    /\ pc' = [pc EXCEPT ![p] = "dw_close"]
    /\ req' = [req EXCEPT ![p].chg = (@ \/ submissions' # submissions)]
    /\ UNCHANGED <<serial, budget, served, users, contests, nextOid, sessions, payments, last>>

\* await contestCollection.updateOne({ _id }, { $set: { winnerSubmissionId, winnerEmail, status } })
DeclareClose(p) ==
    /\ pc[p] = "dw_close"
    /\ LET oid == ObjectId(req[p].arg.id) IN
       contests' = IF ContestMatches(oid)
                   THEN [contests EXCEPT ![oid.v] =
                            [@ EXCEPT !.winnerSubmissionId = req[p].arg.submissionId,
                                      !.winnerEmail = req[p].loc.userEmail,
                                      !.status = "ended"]]
                   ELSE contests
    /\ Respond(p, Other("Winner declared successfully!"))
    /\ UNCHANGED <<serial, budget, served, users, nextOid, sessions, payments, submissions>>

(* ------------------------------- crash --------------------------------- *)
\* The server process dies while handlers are suspended at an await: the
\* writes already made stay in the database, the handlers in flight never
\* resume, and no further request is served.
Crash ==
    /\ \E p \in Procs : pc[p] \notin {"idle", "down"}
    /\ pc' = [p \in Procs |-> "down"]
    /\ req' = [p \in Procs |-> NoReq]
    /\ UNCHANGED <<serial, budget, served, users, contests, nextOid, sessions, payments,
                   submissions, last>>

(* --------------------------- specification ----------------------------- *)
Step(p) ==
    \/ CreateContest(p)
    \/ Transition(p)
    \/ Confirm(p)
    \/ Reject(p)
    \/ EditContest(p)
    \/ DeleteContestAdmin(p)
    \/ DeleteContest(p)
    \/ CreateCheckoutSession(p)
    \/ VerifyRetrieve(p)
    \/ VerifyFind(p)
    \/ VerifyInsert(p)
    \/ VerifyInc(p)
    \/ VerifyThrow(p)
    \/ ParticipatedFind(p)
    \/ ParticipatedFetch(p)
    \/ AddSubmission(p)
    \/ SubmitFind(p)
    \/ SubmitInsert(p)
    \/ DeclareFind(p)
    \/ DeclareMark(p)
    \/ DeclareClose(p)

Next == GatewayPay \/ \E p \in Procs : Step(p)

Spec == Init /\ [][Next]_vars

SpecSeq == InitSeq /\ [][Next]_vars

\* The settlement workflow when no store call fails; a handler suspended at
\* the await of its updateOne resumes when the store answers.
NextPaired ==
    \/ GatewayPay
    \/ \E p \in Procs :
        \/ CreateContest(p)
        \/ CreateCheckoutSession(p)
        \/ VerifyRetrieve(p)
        \/ VerifyFind(p)
        \/ VerifyInsert(p)
        \/ VerifyInc(p)

SpecPaired ==
    /\ Init
    /\ [][NextPaired]_vars
    /\ \A p \in Procs : WF_vars(VerifyInc(p))

\* Concurrent verify-payment requests of distinct users: no two requests in
\* flight are for the same (contestId, userEmail), and no store call fails.
DistinctInFlight ==
    \A p, q \in Procs :
        (/\ p # q
         /\ pc[p] \in {"vp_find", "vp_insert", "vp_inc"}
         /\ pc[q] \in {"vp_find", "vp_insert", "vp_inc"})
            => \/ req[p].loc.contestId # req[q].loc.contestId
               \/ req[p].loc.userEmail # req[q].loc.userEmail

NextDistinct ==
    \/ GatewayPay
    \/ \E p \in Procs :
        \/ CreateContest(p)
        \/ CreateCheckoutSession(p)
        \/ VerifyRetrieve(p) /\ DistinctInFlight'
        \/ VerifyFind(p)
        \/ VerifyInsert(p)
        \/ VerifyInc(p)

SpecDistinct == Init /\ [][NextDistinct]_vars

\* The status of a contest is written by transition, confirm, reject and
\* declare-winner; users post contests and submit.
NextStatus ==
    \E p \in Procs :
        \/ CreateContest(p)
        \/ Transition(p)
        \/ Confirm(p)
        \/ Reject(p)
        \/ SubmitFind(p)
        \/ SubmitInsert(p)
        \/ DeclareFind(p)
        \/ DeclareMark(p)
        \/ DeclareClose(p)

SpecStatus == Init /\ [][NextStatus]_vars

\* The server with crashes.
NextCrash == Next \/ Crash

SpecCrash == Init /\ [][NextCrash]_vars

\* The settlement workflow alone: contests are posted, checkouts are opened
\* and paid, payments are verified.
NextSettlement ==
    \/ GatewayPay
    \/ \E p \in Procs :
        \/ CreateContest(p)
        \/ CreateCheckoutSession(p)
        \/ VerifyRetrieve(p)
        \/ VerifyFind(p)
        \/ VerifyInsert(p)
        \/ VerifyInc(p)
        \/ VerifyThrow(p)

SpecSettlement == Init /\ [][NextSettlement]_vars

\* An end-to-end run: one contest is posted and confirmed, distinct users
\* check out once each, pay and verify, submit, and a winner is declared; no
\* store call fails.
OneSessionPerUser ==
    \A i, j \in DOMAIN sessions :
        (/\ sessions[i].contestId = sessions[j].contestId
         /\ sessions[i].userEmail = sessions[j].userEmail) => i = j

NextRun ==
    \/ GatewayPay
    \/ \E p \in Procs :
        \/ contests = <<>> /\ CreateContest(p)
        \/ Confirm(p)
        \/ CreateCheckoutSession(p) /\ OneSessionPerUser'
        \/ VerifyRetrieve(p)
        \/ VerifyFind(p)
        \/ VerifyInsert(p)
        \/ VerifyInc(p)
        \/ SubmitFind(p)
        \/ SubmitInsert(p)
        \/ DeclareFind(p)
        \/ DeclareMark(p)
        \/ DeclareClose(p)

SpecRun == InitRun /\ [][NextRun]_vars

\* Winner resolution alone: contests are posted, users submit, winners are
\* declared. A contest is ended by declare-winner only.
NextResolution ==
    \E p \in Procs :
        \/ CreateContest(p)
        \/ AddSubmission(p)
        \/ SubmitFind(p)
        \/ SubmitInsert(p)
        \/ DeclareFind(p)
        \/ DeclareMark(p)
        \/ DeclareClose(p)

SpecResolution == Init /\ [][NextResolution]_vars

(* ============================= properties ============================== *)
\* A step in which a request is answered: taken and answered at once, or a
\* suspended handler reaches its answer.
Answered ==
    \/ pc' = pc /\ served' # served
    \/ \E p \in Procs : pc[p] # "idle" /\ pc'[p] = "idle"

PaymentsOf(contestId, userEmail) ==
    {d \in payments : d.contestId = contestId /\ d.userEmail = userEmail}

Conflict == "Contest not found or already updated"

(* C1: every change of a contest's status is pending->confirmed,           *)
(* pending->rejected or confirmed->ended; no request changes the status of *)
(* a contest that is rejected or ended.                                    *)
LegalMoves ==
    {<<"pending", "confirmed">>, <<"pending", "rejected">>, <<"confirmed", "ended">>}

C1_StatusMoves ==
    [][\A n \in DOMAIN contests \cap DOMAIN contests' :
          contests'[n].status # contests[n].status
              => <<contests[n].status, contests'[n].status>> \in LegalMoves]_vars

(* C2: of two PATCH /contests/:id requests that carry a status and are     *)
(* served back to back on a contest that is pending, exactly one succeeds, *)
(* the other is answered with the conflict message, and the contest ends   *)
(* in the status the successful one asked for.                             *)
C2_OneTransitionWins ==
    [][(/\ Answered
        /\ last.op = "transition" /\ last'.op = "transition"
        /\ last'.arg.id = last.arg.id
        /\ last.arg.status # "" /\ last'.arg.status # ""
        /\ last.preS = "pending")
       => (/\ last.resp = "success"
           /\ last'.resp = Conflict
           /\ last.arg.id.v \in DOMAIN contests'
           /\ contests'[last.arg.id.v].status = last.arg.status)]_vars

(* C3: when verify-payment is called twice in a row with the same paid     *)
(* session, the first call being the one that enrolls the user and no      *)
(* store call failing, there is afterwards exactly one Payment for the     *)
(* session's (contestId, userEmail), the contest's participants counter is *)
(* one above what the first call met, and the second call answers 'Already *)
(* registered' and changes no Payment and no Contest.                      *)
C3_VerifyTwice ==
    [][(/\ Answered
        /\ last.op = "verify" /\ last'.op = "verify"
        /\ last'.arg = last.arg
        /\ last.resp = "success"
        /\ last'.resp # "Verification failed")
       => LET session == sessions[last.arg.session]
              oid == ObjectId(session.contestId) IN
          /\ Cardinality({d \in payments' : /\ d.contestId = session.contestId
                                             /\ d.userEmail = session.userEmail}) = 1
          /\ last.preN >= 0 =>
                /\ oid.v \in DOMAIN contests'
                /\ contests'[oid.v].participants = last.preN + 1
          /\ last'.resp = "Already registered"
          /\ ~last'.chg
          /\ payments' = payments
          /\ contests' = contests]_vars

\* The repeated call has been answered: one Payment, the counter at 1.
C3_Witness ==
    /\ last.op = "verify"
    /\ last.prev = "success"
    /\ last.resp = "Already registered"
    /\ last.preN = 1
    /\ LET session == sessions[last.arg.session] IN
       /\ Cardinality(PaymentsOf(session.contestId, session.userEmail)) = 1
       /\ CountOf(ObjectId(session.contestId)) = 1

(* C4: the store holds at most one Payment per (contestId, userEmail).     *)
C4_OnePaymentPerPair ==
    \A d1, d2 \in payments :
        (d1.contestId = d2.contestId /\ d1.userEmail = d2.userEmail) => d1 = d2

(* C5: whenever no verify-payment request stands between its insert and    *)
(* its increment, each contest's participants counter equals the number of *)
(* distinct users with a Payment for that contest.                         *)
PayersOf(n) == {d.userEmail : d \in {e \in payments : e.contestId.v = n}}

C5_CounterEqualsPayers ==
    (\A p \in Procs : pc[p] # "vp_inc")
        => \A n \in DOMAIN contests : contests[n].participants = Cardinality(PayersOf(n))

(* C6: a contest's participants counter never exceeds the number of        *)
(* distinct (contestId, userEmail) enrollments recorded as Payments.       *)
C6_NeverOverCount ==
    \A n \in DOMAIN contests : contests[n].participants <= Cardinality(PayersOf(n))

(* C7: a verify-payment request for a session the gateway does not report  *)
(* as paid is answered 'Payment not completed' at once, inserts no Payment *)
(* and leaves every contest unchanged.                                     *)
VerifyTaken(sid) ==
    /\ served' # served
    /\ \/ \E p \in Procs : /\ pc[p] = "idle" /\ pc'[p] = "vp_find"
                           /\ req'[p].arg.session = sid
       \/ pc' = pc /\ last'.op = "verify" /\ last'.arg.session = sid

C7_UnpaidChangesNothing ==
    [][\A sid \in DOMAIN sessions :
          (VerifyTaken(sid) /\ sessions[sid].payment_status # "paid")
              => /\ pc' = pc
                 /\ last'.resp = "Payment not completed"
                 /\ payments' = payments
                 /\ contests' = contests]_vars

\* An unpaid session of an existing contest has been refused.
C7_Witness ==
    /\ last.op = "verify"
    /\ last.resp = "Payment not completed"
    /\ last.arg.session \in DOMAIN sessions
    /\ sessions[last.arg.session].payment_status = "unpaid"
    /\ ContestMatches(ObjectId(sessions[last.arg.session].contestId))
    /\ payments = {}

(* C8: when POST /submissions/:contestId is called twice in a row for a    *)
(* (contestId, userEmail) that had no Submission, the first call inserts   *)
(* one Submission with isWinner = false, the second is answered 'Already   *)
(* submitted' and inserts nothing, and exactly one Submission of the pair  *)
(* exists.                                                                 *)
C8_SubmitTwice ==
    [][(/\ Answered
        /\ last.op = "submit" /\ last'.op = "submit"
        /\ last'.arg = last.arg
        /\ last.preN = 0)
       => LET mine == {d \in submissions' : /\ d.contestId.v = last.arg.id.v
                                            /\ d.userEmail = last.arg.userEmail} IN
          /\ last.resp = "inserted"
          /\ Cardinality(mine) = 1
          /\ \A d \in mine : "isWinner" \in DOMAIN d /\ d.isWinner = FALSE
          /\ last'.resp = "Already submitted"
          /\ ~last'.chg
          /\ submissions' = submissions]_vars

\* The repeated submit has been refused and one Submission of the pair exists.
C8_Witness ==
    /\ last.op = "submit"
    /\ last.prev = "inserted"
    /\ last.resp = "Already submitted"
    /\ Cardinality(SubmissionsOf(last.arg.id.v, last.arg.userEmail)) = 1

(* C9: the store holds at most one Submission per (contestId, userEmail).  *)
C9_OneSubmissionPerPair ==
    \A d1, d2 \in submissions :
        (d1.contestId.v = d2.contestId.v /\ d1.userEmail = d2.userEmail) => d1 = d2

(* C10: when declare-winner for (contestId, submissionId) has answered     *)
(* with success on an existing contest, the Submission has isWinner =      *)
(* true, the contest is ended with winnerEmail the Submission's userEmail, *)
(* and no other Submission of the contest has isWinner = true.             *)
C10_AfterDeclareWinner ==
    [][\A p \in Procs :
          (/\ pc[p] = "dw_close" /\ pc'[p] = "idle"
           /\ req[p].arg.id.v \in DOMAIN contests')
              => LET n == req[p].arg.id.v
                     sid == ObjectId(req[p].arg.submissionId) IN
                 /\ \E d \in submissions' :
                       /\ d._id = sid
                       /\ IsWinner(d)
                       /\ contests'[n].winnerEmail = d.userEmail
                 /\ contests'[n].status = "ended"
                 /\ \A d \in submissions' :
                       (d.contestId.v = n /\ d._id # sid) => ~IsWinner(d)]_vars

(* C11: a contest is closed at most once: whatever declare-winner calls    *)
(* are made on it, at most one Submission of a contest has isWinner =      *)
(* true, and no step changes the winnerEmail or the winnerSubmissionId of  *)
(* a contest that is ended.                                                *)
WinnersOf(n) == {d \in submissions : d.contestId.v = n /\ IsWinner(d)}

C11_ClosedOnce ==
    [][/\ \A n \in DOMAIN contests : Cardinality(WinnersOf(n)') <= 1
       /\ \A n \in DOMAIN contests \cap DOMAIN contests' :
             contests[n].status = "ended"
                 => /\ contests'[n].winnerEmail = contests[n].winnerEmail
                    /\ contests'[n].winnerSubmissionId = contests[n].winnerSubmissionId]_vars

(* C12: in an end-to-end run (contest posted, confirmed, users pay and     *)
(* verify, one submits and is declared winner, requests one after the      *)
(* other) a posted contest starts pending with participants 0; between     *)
(* requests every contest's participants equals the number of its Payment  *)
(* records, one per distinct user, each with the amount the checkout was   *)
(* priced at; and when declare-winner answers, the contest is ended with   *)
(* winnerEmail the user of the declared Submission.                        *)
PaymentsFor(n) == {d \in payments : d.contestId.v = n}

RunSettled(n) ==
    /\ contests[n].participants = Cardinality(PaymentsFor(n))
    /\ Cardinality(PaymentsFor(n)) = Cardinality(PayersOf(n))
    /\ \A d \in PaymentsFor(n) :
          /\ d.amount \in Prices
          /\ d.amount * 100 = sessions[d.stripeSessionId].amount_total

C12_EndToEnd ==
    [][/\ \A n \in DOMAIN contests' \ DOMAIN contests :
             contests'[n].status = "pending" /\ contests'[n].participants = 0
       /\ AllIdle' => \A n \in DOMAIN contests' : RunSettled(n)'
       /\ \A p \in Procs :
             (pc[p] = "dw_close" /\ pc'[p] = "idle")
                 => LET n == req[p].arg.id.v IN
                    /\ contests'[n].status = "ended"
                    /\ \E d \in submissions' :
                          /\ d._id = ObjectId(req[p].arg.submissionId)
                          /\ contests'[n].winnerEmail = d.userEmail]_vars

\* The run of the scenario is complete: two users have paid 10 each for
\* contest 1, A has submitted and has been declared its winner.
C12_Witness ==
    /\ AllIdle
    /\ 1 \in DOMAIN contests
    /\ contests[1].status = "ended"
    /\ contests[1].participants = 2
    /\ contests[1].winnerEmail = "A"
    /\ {d.userEmail : d \in PaymentsFor(1)} = {"A", "B"}
    /\ \A d \in PaymentsFor(1) : d.amount = 10
    /\ \E d \in submissions :
          /\ d.contestId.v = 1 /\ d.userEmail = "A" /\ IsWinner(d)
          /\ contests[1].winnerSubmissionId.v = d._id.v

(* C13: a PATCH /contests/:id request that carries a status, on a contest  *)
(* whose status is not pending (or that does not exist), is answered with  *)
(* 'Contest not found or already updated' and leaves every contest         *)
(* unchanged; it is answered with success only when the contest was        *)
(* pending.                                                                *)
C13_NonPendingRefused ==
    [][(Answered /\ last'.op = "transition" /\ last'.arg.status # "")
          => /\ last'.preS # "pending"
                   => last'.resp = Conflict /\ ~last'.chg /\ contests' = contests
             /\ last'.resp = "success" => last'.preS = "pending"]_vars

\* A transition of a contest that is no longer pending has been refused.
C13_Witness ==
    /\ last.op = "transition"
    /\ last.arg.status \in {"confirmed", "rejected"}
    /\ last.preS \in {"confirmed", "rejected", "ended"}
    /\ last.resp = Conflict
    /\ StatusOf(ObjectId(last.arg.id)) = last.preS

(* C14: PATCH /contests/:id only ever sets a status to confirmed or        *)
(* rejected: after a request answered with success the contest is          *)
(* confirmed or rejected, and a request with any other target changes no   *)
(* contest.                                                                *)
C14_OnlyConfirmedOrRejected ==
    [][(Answered /\ last'.op = "transition")
          => /\ last'.resp = "success"
                   => /\ last'.arg.id.v \in DOMAIN contests'
                      /\ contests'[last'.arg.id.v].status \in {"confirmed", "rejected"}
             /\ last'.arg.status \notin {"confirmed", "rejected"}
                   => contests' = contests]_vars

(* C15: a PATCH /contests/:id request sent by an actor whose role is not   *)
(* admin changes no contest.                                               *)
C15_TransitionByAdminOnly ==
    [][(Answered /\ last'.op = "transition" /\ ~verifyAdmin(last'.arg.actor))
          => contests' = contests]_vars

(* C16: a declare-winner request sent by an actor who is neither an admin  *)
(* nor the creator of the contest changes no Submission and no Contest.    *)
MayDeclare(actor, oid) ==
    \/ verifyAdmin(actor)
    \/ ContestMatches(oid) /\ contests[oid.v].creatorEmail = actor

C16_DeclareAuthorized ==
    [][\A p \in Procs :
          (/\ pc[p] \in {"dw_mark", "dw_close"} /\ pc'[p] # pc[p]
           /\ ~MayDeclare(req[p].arg.actor, ObjectId(req[p].arg.id)))
              => submissions' = submissions /\ contests' = contests]_vars

(* C17: DELETE /contests/:id removes a contest only while its status is    *)
(* pending; on a contest in any other status it removes nothing; when no   *)
(* contest matches it answers 'Contest not found' and leaves the store     *)
(* unchanged.                                                              *)
C17_DeleteOnlyPending ==
    [][(Answered /\ last'.op = "delete")
          => /\ last'.preS \notin {"pending", "none"} => contests' = contests
             /\ contests' # contests
                   => /\ last'.preS = "pending"
                      /\ DOMAIN contests' = DOMAIN contests \ {last'.arg.id.v}
             /\ last'.preS = "none"
                   => last'.resp = "Contest not found" /\ contests' = contests]_vars

(* C18: a declare-winner request whose submissionId names no Submission is *)
(* answered 'Submission not found' at once and changes no Submission and   *)
(* no Contest.                                                             *)
DeclareTaken(submissionId) ==
    /\ served' # served
    /\ \/ \E p \in Procs : /\ pc[p] = "idle" /\ pc'[p] = "dw_mark"
                           /\ req'[p].arg.submissionId = submissionId
       \/ /\ pc' = pc /\ last'.op = "declare"
          /\ last'.arg.submissionId = submissionId

C18_NoSubmissionNoWinner ==
    [][\A submissionId \in SubmissionIdInputs :
          (/\ DeclareTaken(submissionId)
           /\ \A d \in submissions : d._id # ObjectId(submissionId))
              => /\ pc' = pc
                 /\ last'.resp = "Submission not found"
                 /\ submissions' = submissions
                 /\ contests' = contests]_vars

\* A declaration with an unknown submissionId has been refused on a contest
\* that has Submissions: the contest is not ended and has no winner.
C18_Witness ==
    /\ last.op = "declare"
    /\ last.resp = "Submission not found"
    /\ ContestMatches(ObjectId(last.arg.id))
    /\ SubmissionsOf(last.arg.id.v, "A") # {}
    /\ contests[last.arg.id.v].status # "ended"
    /\ contests[last.arg.id.v].winnerEmail = NoEmail
    /\ \A d \in submissions : ~IsWinner(d)

(* C19: every contest stored by POST /contests has status pending and      *)
(* participants 0, whatever status and participants the request body       *)
(* carries.                                                                *)
C19_CreatedPending ==
    [][(Answered /\ last'.op = "create")
          => LET n == last'.arg.id.v IN
             /\ n \notin DOMAIN contests
             /\ n \in DOMAIN contests'
             /\ contests'[n].status = "pending"
             /\ contests'[n].participants = 0]_vars

\* A contest posted as ended with one participant is stored pending with none.
C19_Witness ==
    /\ last.op = "create"
    /\ last.arg.status = "ended"
    /\ last.arg.participants = 1
    /\ ContestMatches(ObjectId(last.arg.id))
    /\ contests[last.arg.id.v].status = "pending"
    /\ contests[last.arg.id.v].participants = 0

(* C20: participated-contests sends exactly the existing contests that at  *)
(* least one Payment of the user references, each contest once, also when  *)
(* several Payments of the user reference the same contest, and sends the  *)
(* empty list when the user has no Payment. (The list is compared with the *)
(* store it was read from: no Payment of the user arrived between the two  *)
(* reads.)                                                                 *)
Participated(email) ==
    {n \in DOMAIN contests :
        \E d \in payments : d.userEmail = email /\ d.contestId.v = n}

ParticipatedTaken(email) ==
    /\ served' # served
    /\ \/ \E p \in Procs : /\ pc[p] = "idle" /\ pc'[p] = "pc_fetch"
                           /\ req'[p].arg.userEmail = email
       \/ /\ pc' = pc /\ last'.op = "participated"
          /\ last'.arg.userEmail = email

C20_ParticipatedContests ==
    [][/\ \A p \in Procs :
             (/\ pc[p] = "pc_fetch" /\ pc'[p] = "idle"
              /\ UniqueIds(PaymentsOfUser(req[p].arg.userEmail)) = req[p].loc.uniqueIds)
                 => LET sent == last'.arg.sent IN
                    /\ {sent[i] : i \in DOMAIN sent} = Participated(req[p].arg.userEmail)
                    /\ Len(sent) = Cardinality(Participated(req[p].arg.userEmail))
       /\ \A email \in Emails :
             ParticipatedTaken(email)
                 => /\ pc' = pc <=> PaymentsOfUser(email) = {}
                    /\ pc' = pc => last'.arg.sent = <<>>]_vars

\* A user with two Payments for contest 1 has been sent contest 1, once.
C20_Witness ==
    /\ last.op = "participated"
    /\ last.arg.sent = <<1>>
    /\ Cardinality(PaymentsOf(Str(1), last.arg.userEmail)) = 2

(* C21: a Payment record is created only by verify-payment, for a session  *)
(* the gateway reports as paid, and no step modifies or deletes a Payment  *)
(* record that exists.                                                     *)
C21_PaymentsImmutable ==
    [][/\ payments \subseteq payments'
       /\ \A d \in payments' \ payments :
             /\ \E p \in Procs :
                   /\ pc[p] = "vp_insert" /\ pc'[p] = "vp_inc"
                   /\ req[p].op = "verify"
                   /\ req[p].loc.id = d.stripeSessionId
             /\ d.stripeSessionId \in DOMAIN sessions
             /\ sessions[d.stripeSessionId].payment_status = "paid"
             /\ \A e \in payments : e._id # d._id]_vars

\* A Payment of a paid session exists and requests of other routes have
\* been served since it was inserted.
C21_Witness ==
    /\ payments # {}
    /\ \A d \in payments : sessions[d.stripeSessionId].payment_status = "paid"
    /\ last.op \in {"delete", "transition", "create"}
    /\ last.chg

C23_InsertThenIncrement ==
    /\ [][/\ payments' # payments
               => \E p \in Procs :
                     /\ pc[p] = "vp_insert" /\ pc'[p] = "vp_inc"
                     /\ Cardinality(payments') = Cardinality(payments) + 1
          /\ \A p \in Procs :
                (pc[p] = "vp_inc" /\ pc'[p] # "vp_inc")
                    => LET n == req[p].loc.contestId.v IN
                       /\ pc'[p] = "idle"
                       /\ n \in DOMAIN contests'
                       /\ contests'[n].participants = contests[n].participants + 1
                       /\ \A m \in DOMAIN contests' \ {n} : contests'[m] = contests[m]
          /\ contests' # contests /\ DOMAIN contests' = DOMAIN contests
               => \E p \in Procs : pc[p] = "vp_inc" /\ pc'[p] = "idle"]_vars
    /\ \A p \in Procs : (pc[p] = "vp_inc") ~> (pc[p] = "idle")

\* A verify-payment request has inserted its Payment and incremented the
\* counter of the contest.
C23_Witness ==
    /\ last.op = "verify"
    /\ last.resp = "success"
    /\ last.chg
    /\ last.preN = 0
    /\ AllIdle
    /\ LET session == sessions[last.arg.session] IN
       /\ Cardinality(PaymentsOf(session.contestId, session.userEmail)) = 1
       /\ CountOf(ObjectId(session.contestId)) = 1

(* C24: in every reachable state a contest that has winnerEmail or         *)
(* winnerSubmissionId set has status ended, and the two winner fields are  *)
(* both set or both absent, after any sequence of transition, confirm,     *)
(* reject and declare-winner requests.                                     *)
C24_WinnerFieldsOnlyWhenEnded ==
    \A n \in DOMAIN contests :
        /\ (contests[n].winnerEmail # NoEmail \/ contests[n].winnerSubmissionId # NoId)
               => contests[n].status = "ended"
        /\ contests[n].winnerEmail # NoEmail <=> contests[n].winnerSubmissionId # NoId

(* C25: no increment is lost: when verify-payment requests for paid        *)
(* sessions of distinct users run concurrently, a request whose user has   *)
(* no Payment for the contest inserts one; at every moment the counter of  *)
(* a contest plus the requests standing at their increment equals the      *)
(* number of its Payment records; and once all requests have completed the *)
(* counter equals the number of Payments, one per user.                    *)
PendingIncrements(n) ==
    {p \in Procs : pc[p] = "vp_inc" /\ req[p].loc.contestId.v = n}

C25_NoLostIncrement ==
    [][/\ \A n \in DOMAIN contests' :
             /\ contests'[n].participants + Cardinality(PendingIncrements(n)')
                    = Cardinality(PaymentsFor(n)')
             /\ AllIdle' => /\ contests'[n].participants = Cardinality(PaymentsFor(n)')
                             /\ contests'[n].participants = Cardinality(PayersOf(n)')
       /\ \A p \in Procs :
             (/\ pc[p] = "vp_find" /\ pc'[p] # "vp_find"
              /\ PaymentsOf(req[p].loc.contestId, req[p].loc.userEmail) = {})
                 => pc'[p] = "vp_insert"]_vars

\* Two users' requests for contest 1 have overlapped and completed: the one
\* answered last met the counter at 0, and the counter stands at 2.
C25_Witness ==
    /\ AllIdle
    /\ last.op = "verify" /\ last.resp = "success" /\ last.preN = 0
    /\ 1 \in DOMAIN contests
    /\ contests[1].participants = 2
    /\ PayersOf(1) = {"A", "B"}
    /\ Cardinality(PaymentsFor(1)) = 2

(* C26: in every reachable state the contestId of every Payment record     *)
(* names a Contest that exists in the store.                               *)
C26_PaymentsReferToContests ==
    \A d \in payments : ContestMatches(ObjectId(d.contestId))

====
